---- MODULE Spec2Model ----
(***************************************************************************)
(* A model of the audience-building engine (src/audienceBuilder.py) and of *)
(* the session layer that drives it (src/streamlit_app.py, src/utils.py,   *)
(* src/filters.py).                                                        *)
(*                                                                         *)
(* Values.  Every JSON / pandas value is a tuple whose first element is a  *)
(* tag, so that values of different Python types can be compared:          *)
(*   <<"None">>            Python None / JSON null                         *)
(*   <<"num", n>>          a JSON number                                   *)
(*   <<"text", s>>         a JSON string that is neither a number nor a    *)
(*                         date (pd.to_numeric / pd.to_datetime coerce it  *)
(*                         to NaN / NaT)                                   *)
(*   <<"date", y, m, d>>   a JSON string holding the ISO date y-m-d        *)
(*   <<"nan">>, <<"nat">>  pandas NaN and NaT                              *)
(*   <<"ts", y, m, d>>     a pandas Timestamp (UTC midnight of y-m-d)      *)
(*   <<"str", s>>          an identifier that is a Python str              *)
(*   <<"int", s>>          an identifier that is a Python int, s being its *)
(*                         decimal representation                          *)
(* A JSON object is a function from its keys; a key may be absent.         *)
(***************************************************************************)
EXTENDS Integers, Sequences, FiniteSets, TLC

VARIABLES
    matches_files,        \* region -> the match file at that region's path
    properties_df,        \* AudienceBuilder.properties_df: None or a sequence of rows
    permits_df,           \* AudienceBuilder.permits_df: None or a sequence of rows
    property_permit_map,  \* AudienceBuilder.property_permit_map
    permit_property_map,  \* AudienceBuilder.permit_property_map
    initialized,          \* st.session_state.initialized
    load_error,           \* the exception load_data ended with, or "none"
    call,                 \* the last engine call and its arguments
    result,               \* what that call returned (or the exception it raised)
    prev,                 \* the call and result before the last one
    filter_state,         \* the filter keys of st.session_state
    saved_audiences,      \* st.session_state.saved_audiences: name -> set of ids
    audience_files,       \* the files of the audiences directory, by name
    join                  \* joinPermitsRentcast.process_data: its inputs and locals

vars == <<matches_files, properties_df, permits_df, property_permit_map,
          permit_property_map, initialized, load_error, call, result, prev,
          filter_state, saved_audiences, audience_files, join>>

---------------------------------------------------------------------------
(* Values *)

None == <<"None">>
NaN == <<"nan">>
NaT == <<"nat">>
Num(n) == <<"num", n>>
Text(s) == <<"text", s>>
DateStr(y, m, d) == <<"date", y, m, d>>
IdStr(s) == <<"str", s>>
IdInt(s) == <<"int", s>>

\* dict.get(key) / dict.get(key, default)
Get(obj, key, default) == IF key \in DOMAIN obj THEN obj[key] ELSE default

\* dict.setdefault(key, default) followed by a read of the key
SetDefault(obj, key, default) == IF key \in DOMAIN obj THEN obj[key] ELSE default

\* Python truth value of an identifier: None, "" and 0 are false
Truthy(x) ==
    /\ x # None
    /\ x[2] # ""
    /\ ~(x[1] = "int" /\ x[2] = "0")

\* str(p) of an identifier
PyStr(x) == <<"str", x[2]>>

\* pd.to_numeric(column, errors='coerce') on one cell
ToNumeric(raw) == IF raw[1] = "num" THEN raw ELSE NaN

\* pd.to_datetime(column, errors='coerce', utc=True) on one cell
ToDatetime(raw) == IF raw[1] = "date" THEN <<"ts", raw[2], raw[3], raw[4]>> ELSE NaT

\* pd.DataFrame(list of dicts) on one cell of a column no later line coerces
ToCell(raw) == IF raw = None THEN NaN ELSE raw

\* Series.notna() / pd.isna() on one cell
NotNa(v) == v[1] \notin {"nan", "nat", "None"}

\* Days from 1970-01-01 to the civil date y-m-d (proleptic Gregorian calendar)
DaysFromCivil(y, m, d) ==
    LET yy == IF m <= 2 THEN y - 1 ELSE y
        era == yy \div 400
        yoe == yy - era * 400
        mp == (m + 9) % 12
        doy == (153 * mp + 2) \div 5 + d - 1
        doe == yoe * 365 + yoe \div 4 - yoe \div 100 + doy
    IN  era * 146097 + doe - 719468

\* (permit_date - sale_date).days
DaysBetween(permit_date, sale_date) ==
    DaysFromCivil(permit_date[2], permit_date[3], permit_date[4])
        - DaysFromCivil(sale_date[2], sale_date[3], sale_date[4])

\* Timestamp.year / Series.dt.year
YearOf(ts) == ts[2]

\* The set of the elements of a sequence
Range(s) == {s[i] : i \in DOMAIN s}

\* The concatenation of a sequence of sequences
RECURSIVE Flatten(_)
Flatten(ss) == IF ss = <<>> THEN <<>> ELSE Head(ss) \o Flatten(Tail(ss))

---------------------------------------------------------------------------
(* AudienceBuilder.load_data *)

\* The regions of the matches_files dict, in its iteration order
Regions == <<"MD", "VA">>

\* A path with no readable file behind it
Missing == [exists |-> FALSE, matches |-> <<>>]

\* A readable match file holding the sequence ms of match objects
File(ms) == [exists |-> TRUE, matches |-> ms]

\* One pass of the loop body that builds the two index maps from one match
IndexStep(idx, match) ==
    IF "property" \in DOMAIN match /\ "permit" \in DOMAIN match
    THEN LET property_id == Get(match["property"], "id", None)
             permit_id == Get(match["permit"], "permit_id", None)
         IN  IF Truthy(property_id) /\ Truthy(permit_id)
             THEN LET old == IF property_id \in DOMAIN idx.property_permit_map
                             THEN idx.property_permit_map[property_id]
                             ELSE <<>>
                  IN  [property_permit_map |->
                           (property_id :> Append(old, permit_id))
                               @@ idx.property_permit_map,
                       permit_property_map |->
                           (permit_id :> property_id) @@ idx.permit_property_map]
             ELSE idx
    ELSE idx

RECURSIVE IndexScan(_, _)
IndexScan(idx, ms) ==
    IF ms = <<>> THEN idx ELSE IndexScan(IndexStep(idx, Head(ms)), Tail(ms))

EmptyIndex == [property_permit_map |-> <<>>, permit_property_map |-> <<>>]

\* The matches of every readable file, in region order (an unreadable file
\* raises inside the try of load_data and the loop goes on to the next region)
ReadableMatches(files) ==
    Flatten([i \in DOMAIN Regions |->
               IF files[Regions[i]].exists THEN files[Regions[i]].matches ELSE <<>>])

\* Each match of the readable files paired with the region of its file
RECURSIVE Stamp(_, _)
Stamp(state, ms) ==
    IF ms = <<>> THEN <<>>
    ELSE <<[state |-> state, match |-> Head(ms)]>> \o Stamp(state, Tail(ms))

StampedMatches(files) ==
    Flatten([i \in DOMAIN Regions |->
               IF files[Regions[i]].exists
               THEN Stamp(Regions[i], files[Regions[i]].matches)
               ELSE <<>>])

\* A row of properties_df before the date coercion: the region tag, the
\* defaults of the optional keys, to_numeric on the four numeric columns and
\* the renaming of bedrooms, bathrooms and squareFootage
PropertyRowRaw(state, property_data) ==
    [id |-> Get(property_data, "id", None),
     state |-> state,
     yearBuilt |-> ToNumeric(SetDefault(property_data, "yearBuilt", None)),
     beds |-> ToNumeric(SetDefault(property_data, "bedrooms", None)),
     baths |-> ToNumeric(SetDefault(property_data, "bathrooms", None)),
     buildingSize |-> ToNumeric(SetDefault(property_data, "squareFootage", None)),
     propertyType |-> SetDefault(property_data, "propertyType", <<"text", "Unknown">>),
     lastSalePrice |-> ToCell(Get(property_data, "lastSalePrice", None)),
     lastSaleDate |-> Get(property_data, "lastSaleDate", None)]

\* A row of properties_df as load_data leaves it
PropertyRow(state, property_data) ==
    [PropertyRowRaw(state, property_data) EXCEPT
        !.lastSaleDate = ToDatetime(@)]

\* A row of permits_df as load_data leaves it
PermitRow(state, permit_data) ==
    [permit_id |-> Get(permit_data, "permit_id", None),
     state |-> state,
     file_date |-> ToDatetime(SetDefault(permit_data, "file_date", None))]

HasProperty(sm) == "property" \in DOMAIN sm.match
HasPermit(sm) == "permit" \in DOMAIN sm.match

\* A loading loop that takes a property only from a match that also has a
\* permit
PropertiesList_PairedOnly(files) ==
    LET Paired(sm) == HasProperty(sm) /\ HasPermit(sm)
    IN  SelectSeq(StampedMatches(files), Paired)

\* properties_list and permits_list at the end of the loading loop
PropertiesList(files) == SelectSeq(StampedMatches(files), HasProperty)
PermitsList(files) == SelectSeq(StampedMatches(files), HasPermit)

PropertyRows(files) ==
    [i \in DOMAIN PropertiesList(files) |->
        PropertyRow(PropertiesList(files)[i].state,
                    PropertiesList(files)[i].match["property"])]

PropertyRowsRaw(files) ==
    [i \in DOMAIN PropertiesList(files) |->
        PropertyRowRaw(PropertiesList(files)[i].state,
                       PropertiesList(files)[i].match["property"])]

PermitRows(files) ==
    [i \in DOMAIN PermitsList(files) |->
        PermitRow(PermitsList(files)[i].state,
                  PermitsList(files)[i].match["permit"])]

\* load_data: the maps are reset and rebuilt; with no property record it
\* raises ValueError before either table is assigned; with property records
\* but no permit record the permits table has no file_date column and the
\* date coercion raises KeyError after both tables were assigned
LoadOutcome(files) ==
    LET idx == IndexScan(EmptyIndex, ReadableMatches(files))
    IN  IF PropertiesList(files) = <<>>
        THEN [error |-> "ValueError", properties_df |-> None, permits_df |-> None,
              index |-> idx]
        ELSE IF PermitsList(files) = <<>>
        THEN [error |-> "KeyError", properties_df |-> PropertyRowsRaw(files),
              permits_df |-> <<>>, index |-> idx]
        ELSE [error |-> "none", properties_df |-> PropertyRows(files),
              permits_df |-> PermitRows(files), index |-> idx]

---------------------------------------------------------------------------
(* AudienceBuilder.filter_properties *)

\* kwargs.get(key) is not None
IsGiven(kwargs, key) == Get(kwargs, key, None) # None

\* A range mask whose comparisons are strict at both ends
RangeMask_Exclusive(kwargs, min_param, max_param, cell, value) ==
    (IsGiven(kwargs, min_param) \/ IsGiven(kwargs, max_param)) =>
        /\ NotNa(cell)
        /\ IsGiven(kwargs, min_param) => value > kwargs[min_param][2]
        /\ IsGiven(kwargs, max_param) => value < kwargs[max_param][2]

\* The mask of one range constraint on one cell: taken only when a bound is
\* given, and then notna() & (cell >= min) & (cell <= max), each comparison
\* only for a given bound
RangeMask(kwargs, min_param, max_param, cell, value) ==
    (IsGiven(kwargs, min_param) \/ IsGiven(kwargs, max_param)) =>
        /\ NotNa(cell)
        /\ IsGiven(kwargs, min_param) => value >= kwargs[min_param][2]
        /\ IsGiven(kwargs, max_param) => value <= kwargs[max_param][2]

\* The value a comparison reads from a cell (0 stands in for a null cell,
\* whose comparisons the notna() conjunct makes irrelevant)
NumberIn(cell) == IF cell[1] = "num" THEN cell[2] ELSE 0
YearIn(cell) == IF cell[1] = "ts" THEN YearOf(cell) ELSE 0

YearBuiltMask(kwargs, row) ==
    RangeMask(kwargs, "min_year_built", "max_year_built",
              row.yearBuilt, NumberIn(row.yearBuilt))

SaleYearMask(kwargs, row) ==
    RangeMask(kwargs, "min_sale_year", "max_sale_year",
              row.lastSaleDate, YearIn(row.lastSaleDate))

SalePriceMask(kwargs, row) ==
    RangeMask(kwargs, "min_sale_price", "max_sale_price",
              row.lastSalePrice, NumberIn(row.lastSalePrice))

\* numeric_filters: beds, baths, buildingSize (the three columns always
\* exist after load_data's defaults and renaming)
NumericMask(kwargs, row) ==
    /\ RangeMask(kwargs, "min_beds", "max_beds", row.beds, NumberIn(row.beds))
    /\ RangeMask(kwargs, "min_baths", "max_baths", row.baths, NumberIn(row.baths))
    /\ RangeMask(kwargs, "min_sqft", "max_sqft",
                 row.buildingSize, NumberIn(row.buildingSize))

\* A list-valued constraint taken whenever it is given, empty or not
ListGiven_EmptyListCounts(kwargs, key) == IsGiven(kwargs, key)

\* A list-valued constraint is taken when it is given and not empty
ListGiven(kwargs, key) == IsGiven(kwargs, key) /\ Len(kwargs[key]) > 0

\* A type mask under which the placeholder can be selected like any type
PropertyTypesMask_UnknownSelectable(kwargs, row) ==
    ListGiven(kwargs, "property_types") =>
        /\ NotNa(row.propertyType)
        /\ \E i \in DOMAIN kwargs["property_types"] :
               row.propertyType = <<"text", kwargs["property_types"][i]>>

\* type_mask: notna() & (!= 'Unknown') & isin(property_types)
PropertyTypesMask(kwargs, row) ==
    ListGiven(kwargs, "property_types") =>
        /\ NotNa(row.propertyType)
        /\ row.propertyType # <<"text", "Unknown">>
        /\ \E i \in DOMAIN kwargs["property_types"] :
               row.propertyType = <<"text", kwargs["property_types"][i]>>

StatesMask(kwargs, row) ==
    ListGiven(kwargs, "states") =>
        \E i \in DOMAIN kwargs["states"] : row.state = kwargs["states"][i]

SaleToPermitGiven(kwargs) ==
    IsGiven(kwargs, "min_sale_to_permit_years")
        \/ IsGiven(kwargs, "max_sale_to_permit_years")

\* time_diff = days / 365.25 against the given bounds (both sides times 4)
WithinRange(kwargs, days) ==
    /\ IsGiven(kwargs, "min_sale_to_permit_years") =>
           4 * days >= 1461 * kwargs["min_sale_to_permit_years"][2]
    /\ IsGiven(kwargs, "max_sale_to_permit_years") =>
           4 * days <= 1461 * kwargs["max_sale_to_permit_years"][2]

\* One pass of the loop over the permits of a property.  permits_df.at gives
\* a Series for an id held by several rows (skipped) and raises for an id held
\* by none (caught, skipped); a null date is skipped; properties_df.loc gives
\* a Series when several rows hold the property's id, and then .days raises
\* AttributeError inside the try (caught, skipped)
PermitInRange(kwargs, df, pdf, property_id, permit_id) ==
    LET prows == {j \in DOMAIN pdf : pdf[j].permit_id = permit_id}
        srows == {i \in DOMAIN df : df[i].id = property_id}
    IN  /\ Cardinality(prows) = 1
        /\ NotNa(pdf[CHOOSE j \in prows : TRUE].file_date)
        /\ Cardinality(srows) = 1
        /\ WithinRange(kwargs,
               DaysBetween(pdf[CHOOSE j \in prows : TRUE].file_date,
                           df[CHOOSE i \in srows : TRUE].lastSaleDate))

\* valid_properties: the keys of the index that have a row with a sale date
ValidProperties(df, ppm) ==
    DOMAIN ppm \cap {df[i].id : i \in {k \in DOMAIN df : NotNa(df[k].lastSaleDate)}}

\* property_valid at the end of the loop over the property's permits
PropertyValid(kwargs, df, pdf, ppm, property_id) ==
    /\ property_id \in ValidProperties(df, ppm)
    /\ \E k \in DOMAIN ppm[property_id] :
           PermitInRange(kwargs, df, pdf, property_id, ppm[property_id][k])

\* A time mask that starts all True instead of all False
SaleToPermitMask_StartsTrue(kwargs, df, pdf, ppm, row) ==
    (SaleToPermitGiven(kwargs) /\ row.id \in ValidProperties(df, ppm)) =>
        PropertyValid(kwargs, df, pdf, ppm, row.id)

\* time_mask.loc[property_id] = True marks every row holding the id
SaleToPermitMask(kwargs, df, pdf, ppm, row) ==
    SaleToPermitGiven(kwargs) => PropertyValid(kwargs, df, pdf, ppm, row.id)

\* The final mask of filter_properties on one row
PropertyMask(kwargs, df, pdf, ppm, row) ==
    /\ YearBuiltMask(kwargs, row)
    /\ SaleYearMask(kwargs, row)
    /\ SalePriceMask(kwargs, row)
    /\ NumericMask(kwargs, row)
    /\ PropertyTypesMask(kwargs, row)
    /\ StatesMask(kwargs, row)
    /\ SaleToPermitMask(kwargs, df, pdf, ppm, row)

\* filter_properties(**kwargs): properties_df[mask]
filter_properties(kwargs, df, pdf, ppm) ==
    LET Keep(row) == PropertyMask(kwargs, df, pdf, ppm, row)
    IN  SelectSeq(df, Keep)

---------------------------------------------------------------------------
(* AudienceBuilder.filter_permits *)

\* Python truth value of kwargs.get(key): None and 0 are false
IsTrue(kwargs, key) == IsGiven(kwargs, key) /\ kwargs[key][2] # 0

MinPermitYearMask(kwargs, row) ==
    IsTrue(kwargs, "min_permit_year") =>
        NotNa(row.file_date) /\ YearIn(row.file_date) >= kwargs["min_permit_year"][2]

MaxPermitYearMask(kwargs, row) ==
    IsTrue(kwargs, "max_permit_year") =>
        NotNa(row.file_date) /\ YearIn(row.file_date) <= kwargs["max_permit_year"][2]

\* filter_permits(**kwargs): the copy of permits_df after the two year filters
filter_permits(kwargs, pdf) ==
    LET Keep(row) == MinPermitYearMask(kwargs, row) /\ MaxPermitYearMask(kwargs, row)
    IN  SelectSeq(pdf, Keep)

---------------------------------------------------------------------------
(* AudienceBuilder.build_audience *)

\* index.isin(exclude_properties) on one row
IsExcluded(exclude_properties, row) ==
    \E i \in DOMAIN exclude_properties : exclude_properties[i] = row.id

\* A build that counts the excluded rows among the available ones
AvailableProperties_KeepsExcluded(df, exclude_properties) == df

\* available_properties: the rows of properties_df not in the exclude list
AvailableProperties(df, exclude_properties) ==
    LET Keep(row) == ~IsExcluded(exclude_properties, row)
    IN  SelectSeq(df, Keep)

\* A build that forgets to remove the excluded rows after filtering
FilteredProperties_NoExclusion(property_filters, exclude_properties, df, pdf, ppm) ==
    filter_properties(property_filters, df, pdf, ppm)

\* filtered_properties after "Remove excluded properties after filtering"
FilteredProperties(property_filters, exclude_properties, df, pdf, ppm) ==
    LET Keep(row) == ~IsExcluded(exclude_properties, row)
    IN  IF exclude_properties # <<>>
        THEN SelectSeq(filter_properties(property_filters, df, pdf, ppm), Keep)
        ELSE filter_properties(property_filters, df, pdf, ppm)

\* The maps build_audience rebuilds from the match files; open() is not
\* inside a try there, so an unreadable file raises out of build_audience
AllReadable(files) == \A i \in DOMAIN Regions : files[Regions[i]].exists
RebuiltIndex(files) == IndexScan(EmptyIndex, ReadableMatches(files))

\* permit_property_map.get(permit_id)
OwnerOf(pqm, permit_id) == Get(pqm, permit_id, None)

\* filtered_permits with the property_id column added
AnnotatedPermits(permit_rows, pqm) ==
    [j \in DOMAIN permit_rows |->
        [permit_id |-> permit_rows[j].permit_id,
         state |-> permit_rows[j].state,
         file_date |-> permit_rows[j].file_date,
         property_id |-> OwnerOf(pqm, permit_rows[j].permit_id)]]

\* matching_property_ids
MatchingPropertyIds(permit_rows, pqm) ==
    {OwnerOf(pqm, permit_rows[j].permit_id) :
        j \in {k \in DOMAIN permit_rows :
                  Truthy(OwnerOf(pqm, permit_rows[k].permit_id))}}

\* final_properties
FinalProperties(filtered_properties, matching_property_ids) ==
    LET Keep(row) == row.id \in matching_property_ids
    IN  SelectSeq(filtered_properties, Keep)

\* build_audience(property_filters, permit_filters, exclude_properties)
build_audience(property_filters, permit_filters, exclude_properties, files, df, pdf, ppm) ==
    IF ~AllReadable(files)
    THEN [raised |-> "FileNotFoundError"]
    ELSE
    LET available_properties == AvailableProperties(df, exclude_properties)
        filtered_properties ==
            FilteredProperties(property_filters, exclude_properties, df, pdf, ppm)
        filtered_permits == filter_permits(permit_filters, pdf)
        pqm == RebuiltIndex(files).permit_property_map
        final_properties ==
            FinalProperties(filtered_properties,
                            MatchingPropertyIds(filtered_permits, pqm))
    IN  [raised |-> "none",
         total_properties |-> Len(available_properties),
         matching_properties |-> Len(filtered_properties),
         matching_permits |-> Len(filtered_permits),
         final_matches |-> Len(final_properties),
         results |-> final_properties,
         filtered_permits |-> AnnotatedPermits(filtered_permits, pqm)]

---------------------------------------------------------------------------
(* The inputs: match files, filter configurations, exclude lists *)

\* The largest number of match pairs in the match files taken together
MaxPairs == 2

\* The sequences over S of length at most n
SeqsUpTo(S, n) == UNION {[1..k -> S] : k \in 0..n}

\* The match objects pairing each property object with each permit object
MatchesOf(property_objects, permit_objects) ==
    {[property |-> p, permit |-> q] : p \in property_objects, q \in permit_objects}

\* Every assignment of a match file (or of no file) to each region, with at
\* most n match objects in all
FilesOver(match_objects, n) ==
    LET contents == {Missing} \cup {File(ms) : ms \in SeqsUpTo(match_objects, n)}
    IN  {f \in [Range(Regions) -> contents] :
            Len(f["MD"].matches) + Len(f["VA"].matches) <= n}

\* Property objects of a region's match file: a complete record, and one
\* whose optional keys are absent, null or not numeric
PropertyComplete ==
    [id |-> IdStr("p1"), yearBuilt |-> Num(2000), bedrooms |-> Num(2),
     bathrooms |-> Num(2), squareFootage |-> Num(1500), lastSalePrice |-> Num(300000),
     lastSaleDate |-> DateStr(2020, 1, 1), propertyType |-> Text("Condo")]

PropertySparse ==
    [id |-> IdStr("p2"), bedrooms |-> None, bathrooms |-> Text("n/a"),
     squareFootage |-> None, lastSalePrice |-> None, lastSaleDate |-> None]

\* Permit objects: dated before the sale, long after it, and undated
PermitBefore == [permit_id |-> IdStr("q1"), file_date |-> DateStr(2019, 6, 1)]
PermitAfter == [permit_id |-> IdStr("q2"), file_date |-> DateStr(2023, 1, 1)]
PermitUndated == [permit_id |-> IdStr("q3")]

EngineMatches ==
    MatchesOf({PropertyComplete, PropertySparse},
              {PermitBefore, PermitAfter, PermitUndated})

NoFilters == <<>>

EnginePropertyFilters ==
    {NoFilters,
     [min_beds |-> Num(2)],
     [states |-> <<"MD">>],
     [min_sale_to_permit_years |-> Num(-1), max_sale_to_permit_years |-> Num(1)]}

EnginePermitFilters ==
    {NoFilters, [min_permit_year |-> Num(2020)], [max_permit_year |-> Num(2020)]}

EngineExcludeLists == {<<>>, <<IdStr("p1")>>}

\* Identifiers a caller may add to an exclude list: the loaded ones and one
\* that no match file holds
ExcludableIds == {IdStr("p1"), IdStr("p2"), IdStr("p9")}

---------------------------------------------------------------------------
(* The state machine *)

\* The address join is a script of its own: not running
NoJoin == [pc |-> "none"]

\* An audiences directory with no file in it
NoAudienceFiles == <<>>

NoCall == [op |-> "none"]
NoResult == [raised |-> "none"]
NoPrev == [call |-> NoCall, result |-> NoResult]

InitWith(file_sets, audience_dirs) ==
    /\ matches_files \in file_sets
    /\ audience_files \in audience_dirs
    /\ saved_audiences = <<>>
    /\ filter_state = <<>>
    /\ join = NoJoin
    /\ properties_df = None
    /\ permits_df = None
    /\ property_permit_map = <<>>
    /\ permit_property_map = <<>>
    /\ initialized = FALSE
    /\ load_error = "none"
    /\ call = NoCall
    /\ result = NoResult
    /\ prev = NoPrev

\* The builder a call of load_data leaves behind
LoadBuilder ==
    LET out == LoadOutcome(matches_files)
    IN  /\ properties_df' = out.properties_df
        /\ permits_df' = out.permits_df
        /\ property_permit_map' = out.index.property_permit_map
        /\ permit_property_map' = out.index.permit_property_map
        /\ load_error' = out.error
        /\ initialized' = (out.error = "none")

\* utils.load_data: the builder is loaded once per session; a load that
\* raises leaves the session uninitialized
LoadData ==
    /\ ~initialized
    /\ LoadBuilder
    /\ UNCHANGED <<matches_files, call, result, prev, filter_state, saved_audiences, audience_files, join>>

\* What no engine call assigns: the builder's fields, the files, the session
Frame == UNCHANGED <<matches_files, properties_df, permits_df, property_permit_map, permit_property_map, initialized, load_error, filter_state, saved_audiences, audience_files, join>>

\* A call of filter_properties(**kwargs) on the loaded builder
FilterProperties(kwargs) ==
    /\ initialized
    /\ call' = [op |-> "filter_properties", kwargs |-> kwargs]
    /\ result' = [raised |-> "none",
                  rows |-> filter_properties(kwargs, properties_df, permits_df,
                                             property_permit_map)]
    /\ prev' = NoPrev
    /\ Frame

\* A call of filter_permits(**kwargs) on the loaded builder
FilterPermits(kwargs) ==
    /\ initialized
    /\ call' = [op |-> "filter_permits", kwargs |-> kwargs]
    /\ result' = [raised |-> "none", rows |-> filter_permits(kwargs, permits_df)]
    /\ prev' = NoPrev
    /\ Frame

\* A build that writes the property_id column into the table it was given
StoredPermits_AnnotatedInPlace(pdf, annotated) ==
    IF Len(annotated) = Len(pdf) THEN annotated ELSE pdf

\* self.permits_df after build_audience: filter_permits filters a copy of
\* the table and build_audience writes the property_id column into a copy
\* of what filter_permits returned, so the stored table keeps its rows
StoredPermits(pdf, annotated) == pdf

\* What build_audience leaves of the builder and the session: it assigns no
\* field of self, and its index maps are local names
BuildFrame ==
    /\ permits_df' = IF result'.raised = "none"
                     THEN StoredPermits(permits_df, result'.filtered_permits)
                     ELSE permits_df
    /\ UNCHANGED <<matches_files, properties_df, property_permit_map, permit_property_map, initialized, load_error, filter_state, saved_audiences, audience_files, join>>

\* A call of build_audience on the loaded builder
BuildAudience(property_filters, permit_filters, exclude_properties) ==
    /\ initialized
    /\ call' = [op |-> "build_audience", property_filters |-> property_filters,
                permit_filters |-> permit_filters,
                exclude_properties |-> exclude_properties]
    /\ result' = build_audience(property_filters, permit_filters, exclude_properties,
                                matches_files, properties_df, permits_df,
                                property_permit_map)
    /\ prev' = NoPrev
    /\ BuildFrame

\* The same build_audience call again with one more excluded identifier
BuildAudienceExcluding(id) ==
    /\ initialized
    /\ call.op = "build_audience"
    /\ prev = NoPrev
    /\ call' = [call EXCEPT !.exclude_properties = Append(@, id)]
    /\ result' = build_audience(call.property_filters, call.permit_filters,
                                Append(call.exclude_properties, id),
                                matches_files, properties_df, permits_df,
                                property_permit_map)
    /\ prev' = [call |-> call, result |-> result]
    /\ BuildFrame

Next ==
    \/ LoadData
    \/ \E kwargs \in EnginePropertyFilters : FilterProperties(kwargs)
    \/ \E kwargs \in EnginePermitFilters : FilterPermits(kwargs)
    \/ \E pf \in EnginePropertyFilters, mf \in EnginePermitFilters,
          ex \in EngineExcludeLists : BuildAudience(pf, mf, ex)

Init == InitWith(FilesOver(EngineMatches, MaxPairs), {NoAudienceFiles})

Spec == Init /\ [][Next]_vars

\* Builds followed by the same build with one more excluded identifier
ExcludePropertyFilters == {NoFilters, [states |-> <<"MD">>]}
ExcludePermitFilters == {NoFilters, [max_permit_year |-> Num(2020)]}

NextExclude ==
    \/ LoadData
    \/ \E pf \in ExcludePropertyFilters, mf \in ExcludePermitFilters,
          ex \in EngineExcludeLists : BuildAudience(pf, mf, ex)
    \/ \E id \in ExcludableIds : BuildAudienceExcluding(id)

SpecExclude == Init /\ [][NextExclude]_vars

\* The sale-to-permit constraint: every combination of its two bounds, over
\* files whose permits lie before the sale, a leap year after it, long after
\* it, or carry no date
PermitLeap == [permit_id |-> IdStr("q4"), file_date |-> DateStr(2021, 1, 1)]

GapMatches ==
    MatchesOf({PropertyComplete, PropertySparse},
              {PermitBefore, PermitLeap, PermitAfter, PermitUndated})

GapBounds == {None, Num(-1), Num(1)}

GapFilters ==
    {[min_sale_to_permit_years |-> lo, max_sale_to_permit_years |-> hi] :
        lo \in GapBounds, hi \in GapBounds}
    \cup {[min_sale_to_permit_years |-> Num(-1)], [max_sale_to_permit_years |-> Num(1)]}

NextGap ==
    \/ LoadData
    \/ \E kwargs \in GapFilters : FilterProperties(kwargs)

InitGap == InitWith(FilesOver(GapMatches, MaxPairs), {NoAudienceFiles})

SpecGap == InitGap /\ [][NextGap]_vars

\* The range and list constraints: property objects below, at and above the
\* bounds the configurations use, and one with every optional value missing
PropertySmall ==
    [id |-> IdStr("p3"), yearBuilt |-> Num(1990), bedrooms |-> Num(1),
     bathrooms |-> Num(1), squareFootage |-> Num(1000), lastSalePrice |-> Num(200000),
     lastSaleDate |-> DateStr(2019, 12, 31), propertyType |-> Text("Townhouse")]

PropertyLarge ==
    [id |-> IdStr("p4"), yearBuilt |-> Num(2010), bedrooms |-> Num(3),
     bathrooms |-> Num(3), squareFootage |-> Num(2000), lastSalePrice |-> Num(400000),
     lastSaleDate |-> DateStr(2021, 1, 1), propertyType |-> None]

FilterMatches ==
    {[property |-> PropertyComplete, permit |-> PermitBefore],
     [property |-> PropertySparse, permit |-> PermitUndated],
     [property |-> PropertySmall, permit |-> PermitAfter],
     [property |-> PropertyLarge, permit |-> PermitUndated]}

\* The range constraints of filter_properties: the two parameters and the
\* bound the configurations give them (the value of PropertyComplete)
RangeConstraints ==
    {<<"min_year_built", "max_year_built", 2000>>,
     <<"min_sale_year", "max_sale_year", 2020>>,
     <<"min_sale_price", "max_sale_price", 300000>>,
     <<"min_beds", "max_beds", 2>>,
     <<"min_baths", "max_baths", 2>>,
     <<"min_sqft", "max_sqft", 1500>>}

\* A single range constraint with its minimum, its maximum or both given
RangeFilters ==
    UNION {{(c[1] :> Num(c[3])),
            (c[2] :> Num(c[3])),
            (c[1] :> Num(c[3])) @@ (c[2] :> Num(c[3])),
            (c[1] :> Num(c[3])) @@ (c[2] :> None)} : c \in RangeConstraints}

ListFilters ==
    {[property_types |-> <<"Condo">>],
     [property_types |-> <<"Unknown", "Townhouse">>],
     [property_types |-> <<>>],
     [states |-> <<"MD">>],
     [states |-> <<"VA">>, min_beds |-> Num(2)]}

FilterPropertyFilters == {NoFilters} \cup RangeFilters \cup ListFilters

PermitYearBounds == {None, Num(0), Num(2020)}

FilterPermitFilters ==
    {NoFilters, [min_permit_year |-> Num(2020)], [max_permit_year |-> Num(2020)]}
    \cup {[min_permit_year |-> lo, max_permit_year |-> hi] :
             lo \in PermitYearBounds, hi \in PermitYearBounds}

\* The ways a caller leaves a constraint unset: the key absent, the key
\* None, the key an empty list
Unset(kwargs, key, how) ==
    CASE how = "absent" -> [k \in DOMAIN kwargs \ {key} |-> kwargs[k]]
      [] how = "None" -> [kwargs EXCEPT ![key] = None]
      [] how = "empty" -> [kwargs EXCEPT ![key] = <<>>]

ListKeys == {"property_types", "states"}

\* The same filter_properties call again with one constraint left unset
FilterPropertiesWithout(key, how) ==
    /\ initialized
    /\ call.op = "filter_properties"
    /\ prev = NoPrev
    /\ key \in DOMAIN call.kwargs
    /\ how = "empty" => key \in ListKeys
    /\ call' = [call EXCEPT !.kwargs = Unset(call.kwargs, key, how)]
    /\ result' = [raised |-> "none",
                  rows |-> filter_properties(Unset(call.kwargs, key, how),
                                             properties_df, permits_df,
                                             property_permit_map)]
    /\ prev' = [call |-> call, result |-> result]
    /\ Frame

\* The same filter_permits call again with one constraint left unset
FilterPermitsWithout(key, how) ==
    /\ initialized
    /\ call.op = "filter_permits"
    /\ prev = NoPrev
    /\ key \in DOMAIN call.kwargs
    /\ call' = [call EXCEPT !.kwargs = Unset(call.kwargs, key, how)]
    /\ result' = [raised |-> "none",
                  rows |-> filter_permits(Unset(call.kwargs, key, how), permits_df)]
    /\ prev' = [call |-> call, result |-> result]
    /\ Frame

FilterKeys ==
    UNION {DOMAIN kwargs : kwargs \in FilterPropertyFilters \cup FilterPermitFilters}

NextFilter ==
    \/ LoadData
    \/ \E kwargs \in FilterPropertyFilters : FilterProperties(kwargs)
    \/ \E kwargs \in FilterPermitFilters : FilterPermits(kwargs)
    \/ \E key \in FilterKeys, how \in {"absent", "None", "empty"} :
          FilterPropertiesWithout(key, how)
    \/ \E key \in FilterKeys, how \in {"absent", "None"} :
          FilterPermitsWithout(key, how)

InitFilter == InitWith(FilesOver(FilterMatches, MaxPairs), {NoAudienceFiles})

SpecFilter == InitFilter /\ [][NextFilter]_vars

---------------------------------------------------------------------------
(* Loading: match files with whole pairs, lone properties and lone permits *)

LoadMatches ==
    {[property |-> PropertyComplete, permit |-> PermitBefore],
     [property |-> PropertySparse, permit |-> PermitUndated],
     [property |-> PropertyComplete],
     [permit |-> PermitAfter]}

NextLoad ==
    \/ LoadData
    \/ BuildAudience(NoFilters, NoFilters, <<>>)

InitLoad == InitWith(FilesOver(LoadMatches, MaxPairs), {NoAudienceFiles})

SpecLoad == InitLoad /\ [][NextLoad]_vars

---------------------------------------------------------------------------
(* The session of streamlit_app.main: filter state, saved audiences *)

\* filters.initialize_filter_state: the defaults of the filter keys
DefaultFilterState ==
    [property_types |-> <<"Single Family", "Condo", "Townhouse", "Multi-Family">>,
     states |-> <<"VA", "MD">>,
     year_built_range |-> <<Num(1800), Num(2024)>>,
     beds_range |-> <<Num(0), Num(10)>>,
     baths_range |-> <<Num(0), Num(10)>>,
     sqft_range |-> <<Num(0), Num(10000)>>,
     sale_date_range |-> <<Num(1900), Num(2024)>>,
     sale_price_range |-> <<Num(0), Num(2000000)>>,
     permit_year_range |-> <<Num(1950), Num(2024)>>,
     sale_to_permit_years_range |-> <<Num(-20), Num(20)>>,
     include_null_property_type |-> TRUE,
     include_null_year_built |-> TRUE,
     include_null_beds |-> TRUE,
     include_null_baths |-> TRUE,
     include_null_sqft |-> TRUE,
     include_null_sale_date |-> TRUE,
     include_null_sale_price |-> TRUE,
     include_null_sale_to_permit |-> TRUE]

\* initialize_filter_state(): every key not in the session gets its default
initialize_filter_state(fs) ==
    [key \in DOMAIN DefaultFilterState |->
        IF key \in DOMAIN fs THEN fs[key] ELSE DefaultFilterState[key]]

\* filters.reset_filters: every filter key is deleted from the session
reset_filters(fs) == [key \in DOMAIN fs \ DOMAIN DefaultFilterState |-> fs[key]]

\* "if st.session_state.<key>:" on a list or a tuple
NotEmpty(value) == value # <<>>

\* filters[key] = st.session_state.<key>, when the value is not empty
ListEntry(fs, key) ==
    IF NotEmpty(fs[key]) THEN (key :> fs[key]) ELSE <<>>

\* filters[min_param], filters[max_param] = the ends of st.session_state.<key>
RangeEntry(fs, key, min_param, max_param) ==
    IF NotEmpty(fs[key])
    THEN (min_param :> fs[key][1]) @@ (max_param :> fs[key][2])
    ELSE <<>>

\* utils.build_property_filters: no include_null_* key is read
build_property_filters(fs) ==
    ListEntry(fs, "property_types")
    @@ ListEntry(fs, "states")
    @@ RangeEntry(fs, "year_built_range", "min_year_built", "max_year_built")
    @@ RangeEntry(fs, "beds_range", "min_beds", "max_beds")
    @@ RangeEntry(fs, "baths_range", "min_baths", "max_baths")
    @@ RangeEntry(fs, "sqft_range", "min_sqft", "max_sqft")
    @@ RangeEntry(fs, "sale_date_range", "min_sale_year", "max_sale_year")
    @@ RangeEntry(fs, "sale_price_range", "min_sale_price", "max_sale_price")
    @@ RangeEntry(fs, "sale_to_permit_years_range",
                  "min_sale_to_permit_years", "max_sale_to_permit_years")

\* utils.build_permit_filters
build_permit_filters(fs) ==
    RangeEntry(fs, "permit_year_range", "min_permit_year", "max_permit_year")

\* list(a set): some order of its elements
RECURSIVE ListOf(_)
ListOf(S) ==
    IF S = {} THEN <<>>
    ELSE LET x == CHOOSE y \in S : TRUE IN <<x>> \o ListOf(S \ {x})

\* excluded_properties: the union of the saved audiences' id sets
ExcludedProperties(saved) == UNION {saved[name] : name \in DOMAIN saved}

\* results['results'].index.astype(str).tolist()
CurrentProperties(res) == [i \in DOMAIN res.results |-> PyStr(res.results[i].id)]

\* save_audience(properties, name): the json written to audiences/<name>.json
save_audience(properties, name) ==
    [name |-> name, properties |-> [i \in DOMAIN properties |-> PyStr(properties[i])]]

\* The segments of an audience name between its path separators
Segments(name) ==
    CASE name = "x/y" -> <<"x", "y">>
      [] name = "../b" -> <<"..", "b">>
      [] OTHER -> <<name>>

\* The path the segments lead to: ".." steps out of the directory before it
RECURSIVE Walk(_, _)
Walk(segments, path) ==
    IF segments = <<>> THEN path
    ELSE IF Head(segments) = ".." /\ path # <<>>
    THEN Walk(Tail(segments), SubSeq(path, 1, Len(path) - 1))
    ELSE Walk(Tail(segments), Append(path, Head(segments)))

\* f'audiences/{name}.json': the directory and the file stem it names
PathOf(name) ==
    LET path == Walk(<<"audiences">> \o Segments(name), <<>>)
    IN  <<SubSeq(path, 1, Len(path) - 1), path[Len(path)]>>

\* The directories there are: the working directory and audiences/, which
\* save_audience creates
ExistingDirs == {<<>>, <<"audiences">>}

\* os.listdir('audiences'): the .json files directly in audiences/
ListDir(files) == {f \in DOMAIN files : f[1] = <<"audiences">>}

\* load_saved_audiences(): audience['name'] -> set(audience['properties'])
\* for every file of audiences/
load_saved_audiences(files) ==
    [name \in {files[f].name : f \in ListDir(files)} |->
        Range(files[CHOOSE f \in ListDir(files) : files[f].name = name].properties)]

\* The script run of main() that follows an interaction which left the
\* session with filter keys fs and saved audiences saved: the filter keys
\* are initialized, the builder is loaded if it is not yet, the saved
\* audiences are read from disk in the first run that gets past load_data,
\* and build_audience runs with the saved ids as its exclude list. An
\* exception of load_data or build_audience ends the run in main's handler.
ScriptRun(fs, saved, dir) ==
    /\ filter_state' = initialize_filter_state(fs)
    /\ IF initialized
       THEN UNCHANGED <<properties_df, permits_df, property_permit_map,
                        permit_property_map, initialized, load_error>>
       ELSE LoadBuilder
    /\ saved_audiences' =
           IF initialized THEN saved
           ELSE IF initialized' THEN load_saved_audiences(dir) ELSE saved
    /\ call' = IF initialized'
               THEN [op |-> "main",
                     property_filters |-> build_property_filters(filter_state'),
                     permit_filters |-> build_permit_filters(filter_state'),
                     exclude_properties |->
                         ListOf(ExcludedProperties(saved_audiences'))]
               ELSE [op |-> "main"]
    /\ result' = IF initialized'
                 THEN build_audience(call'.property_filters, call'.permit_filters,
                                     call'.exclude_properties, matches_files,
                                     properties_df', permits_df',
                                     property_permit_map')
                 ELSE [raised |-> load_error']
    /\ prev' = NoPrev
    /\ UNCHANGED <<matches_files, join>>

\* The page is opened (or opened again after a failed load)
OpenSession ==
    /\ ~initialized
    /\ ScriptRun(filter_state, saved_audiences, audience_files)
    /\ UNCHANGED audience_files

\* The sidebar is rendered once load_data has returned the builder
SidebarShown == initialized

\* The Audience Builder tab and the saved tabs are rendered after a build
\* that did not raise
TabsShown == initialized /\ call.op = "main" /\ result.raised = "none"

\* A sidebar widget is given a new value
ChangeFilter(key, value) ==
    /\ SidebarShown
    /\ filter_state[key] # value
    /\ ScriptRun([filter_state EXCEPT ![key] = value], saved_audiences, audience_files)
    /\ UNCHANGED audience_files

\* "Apply Filters": st.rerun()
ApplyFilters ==
    /\ SidebarShown
    /\ ScriptRun(filter_state, saved_audiences, audience_files)
    /\ UNCHANGED audience_files

\* "Reset": reset_filters(); st.rerun()
ResetFilters ==
    /\ SidebarShown
    /\ ScriptRun(reset_filters(filter_state), saved_audiences, audience_files)
    /\ UNCHANGED audience_files

\* open(f'audiences/{name}.json', 'w') raises when the name leads into a
\* directory that does not exist
Writable(name) == PathOf(name)[1] \in ExistingDirs

\* the mutant of NameAccepted: the name-in-use test is left out
NameAccepted_AllowsExisting(name, saved) == name # ""

\* the two tests of the "Save as Audience" button: `if not audience_name`
\* and `elif audience_name in st.session_state.saved_audiences` both end in
\* st.error, the else branch saves
NameAccepted(name, saved) == name # "" /\ name \notin DOMAIN saved

\* "Save as Audience" with a name that is accepted: the current results are
\* written to disk and put in the session, the filters are reset, st.rerun()
SaveAudience(name) ==
    /\ TabsShown
    /\ NameAccepted(name, saved_audiences)
    /\ Writable(name)
    /\ LET current_properties == CurrentProperties(result)
           written == save_audience(current_properties, name)
       IN  /\ audience_files' =
                  [f \in DOMAIN audience_files \cup {PathOf(name)} |->
                      IF f = PathOf(name) THEN written ELSE audience_files[f]]
           /\ ScriptRun(reset_filters(filter_state),
                        [n \in DOMAIN saved_audiences \cup {name} |->
                            IF n = name THEN Range(current_properties)
                            ELSE saved_audiences[n]],
                        audience_files')

\* "Save as Audience" with no name, a name in use, or a name save_audience
\* cannot open: st.error, nothing is written and nothing is reset
SaveRejected(name) ==
    /\ TabsShown
    /\ ~NameAccepted(name, saved_audiences) \/ ~Writable(name)
    /\ UNCHANGED vars

\* A delete_audience that drops the session entry before it removes the file
delete_audience_SessionFirst(name, files, saved) ==
    [returned |-> PathOf(name) \in DOMAIN files /\ name \in DOMAIN saved,
     files |-> [f \in DOMAIN files \ {PathOf(name)} |-> files[f]],
     saved |-> [n \in DOMAIN saved \ {name} |-> saved[n]]]

\* delete_audience(name): os.remove on the file, then del on the session
\* entry, then True; the first of the two that raises ends the call in the
\* handler, which returns False and leaves what was not yet removed
delete_audience(name, files, saved) ==
    IF PathOf(name) \notin DOMAIN files
    THEN [returned |-> FALSE, files |-> files, saved |-> saved]
    ELSE IF name \notin DOMAIN saved
    THEN [returned |-> FALSE,
          files |-> [f \in DOMAIN files \ {PathOf(name)} |-> files[f]],
          saved |-> saved]
    ELSE [returned |-> TRUE,
          files |-> [f \in DOMAIN files \ {PathOf(name)} |-> files[f]],
          saved |-> [n \in DOMAIN saved \ {name} |-> saved[n]]]

\* "Delete Audience" on a saved tab: delete_audience(name), and st.rerun()
\* when it returns True; st.error and no rerun when it returns False
DeleteAudience(name) ==
    /\ TabsShown
    /\ name \in DOMAIN saved_audiences
    /\ LET deleted == delete_audience(name, audience_files, saved_audiences)
       IN  /\ audience_files' = deleted.files
           /\ IF deleted.returned
              THEN ScriptRun(filter_state, deleted.saved, audience_files')
              ELSE /\ saved_audiences' = deleted.saved
                   /\ UNCHANGED <<matches_files, properties_df, permits_df, property_permit_map, permit_property_map, initialized, load_error, call, result, prev, filter_state, join>>

\* "Delete All Audiences": shown above the tabs when the session holds an
\* audience; every file is removed, the session is emptied, st.rerun()
DeleteAllAudiences ==
    /\ initialized
    /\ DOMAIN saved_audiences # {}
    /\ audience_files' =
           [f \in DOMAIN audience_files \ ListDir(audience_files) |-> audience_files[f]]
    /\ ScriptRun(filter_state, <<>>, audience_files')

\* The session's match files: a property with a string id, one with an
\* integer id, one with no property type
PropertyNumbered == [PropertyComplete EXCEPT !.id = IdInt("7")]

SessionMatches ==
    {[property |-> PropertyComplete, permit |-> PermitBefore],
     [property |-> PropertyNumbered, permit |-> PermitAfter],
     [property |-> PropertyLarge, permit |-> PermitLeap]}

\* The audiences directory when the page is opened: empty, or with a file
\* an earlier session saved
AudienceDirs ==
    {NoAudienceFiles, PathOf("old") :> save_audience(<<IdStr("p1")>>, "old")}

\* The values the sidebar widgets are given
WidgetValues ==
    {<<"property_types", <<"Condo">>>>,
     <<"property_types", DefaultFilterState.property_types>>,
     <<"beds_range", <<Num(3), Num(10)>>>>,
     <<"beds_range", DefaultFilterState.beds_range>>,
     <<"include_null_property_type", FALSE>>,
     <<"include_null_property_type", TRUE>>}

\* The names typed into "Audience Name"
AudienceNames == {"", "a", "x/y", "../b"}

NextSession ==
    \/ OpenSession
    \/ \E w \in WidgetValues : ChangeFilter(w[1], w[2])
    \/ ApplyFilters
    \/ ResetFilters
    \/ \E name \in AudienceNames : SaveAudience(name)
    \/ \E name \in AudienceNames : SaveRejected(name)
    \/ \E name \in AudienceNames \cup {"old"} : DeleteAudience(name)
    \/ DeleteAllAudiences

InitSession == InitWith(FilesOver(SessionMatches, MaxPairs), AudienceDirs)

SpecSession == InitSession /\ [][NextSession]_vars

\* The audiences directory is shared by every session of the app: a file of
\* it is removed from outside this session (os.remove in another session)
AudienceFileLost(f) ==
    /\ initialized
    /\ f \in DOMAIN audience_files
    /\ audience_files' = [g \in DOMAIN audience_files \ {f} |-> audience_files[g]]
    /\ UNCHANGED <<matches_files, properties_df, permits_df, property_permit_map, permit_property_map, initialized, load_error, call, result, prev, filter_state, saved_audiences, join>>

\* The session next to another one that removes audience files
NextDelete ==
    \/ NextSession
    \/ \E name \in AudienceNames \cup {"old"} : AudienceFileLost(PathOf(name))

SpecDelete == InitSession /\ [][NextDelete]_vars


---------------------------------------------------------------------------
(* joinPermitsRentcast: texts, address keys, apartments *)

\* A str is the sequence of its characters
Digits == {"0", "1", "2", "3", "4", "5", "6", "7", "8", "9"}
UpperCase == <<"A", "B", "M", "R", "S", "U">>
LowerCase == <<"a", "b", "m", "r", "s", "u">>

\* str.lower() on one character and on a str
LowerChar(c) ==
    IF \E i \in DOMAIN UpperCase : UpperCase[i] = c
    THEN LowerCase[CHOOSE i \in DOMAIN UpperCase : UpperCase[i] = c]
    ELSE c

lower(text) == [i \in DOMAIN text |-> LowerChar(text[i])]

\* str(x) of a str, of None, or of the nan of an empty csv cell
str(x) ==
    IF x = None THEN <<"N", "o", "n", "e">>
    ELSE IF x = NaN THEN <<"n", "a", "n">>
    ELSE x

\* Python truth value of a str or None
NonEmpty(x) == x # None /\ x # <<>>

\* str.isdigit()
isdigit(text) == text # <<>> /\ \A i \in DOMAIN text : text[i] \in Digits

\* str.strip(): leading and trailing blanks removed
RECURSIVE lstrip(_)
lstrip(text) ==
    IF text # <<>> /\ Head(text) = " " THEN lstrip(Tail(text)) ELSE text

RECURSIVE rstrip(_)
rstrip(text) ==
    IF text # <<>> /\ text[Len(text)] = " "
    THEN rstrip(SubSeq(text, 1, Len(text) - 1))
    ELSE text

strip(text) == rstrip(lstrip(text))

\* str.split(' ', 1): cut at the first blank, if there is one
split(text) ==
    IF \E i \in DOMAIN text : text[i] = " "
    THEN LET cut == CHOOSE i \in DOMAIN text :
                        text[i] = " " /\ \A k \in 1..(i - 1) : text[k] # " "
         IN  <<SubSeq(text, 1, cut - 1), SubSeq(text, cut + 1, Len(text))>>
    ELSE <<text>>

\* "sub in text"
Contains(text, sub) ==
    \E i \in 1..(Len(text) - Len(sub) + 1) : SubSeq(text, i, i + Len(sub) - 1) = sub

\* normalize_address_without_city(street_no, street, zip_code)
normalize_address_without_city(street_no, street, zip_code) ==
    lower(str(street_no)) \o <<" ">> \o lower(str(street)) \o <<" ">> \o str(zip_code)

\* normalize_address(street_no, street, city, zip_code)
normalize_address(street_no, street, city, zip_code) ==
    lower(str(street_no)) \o <<" ">> \o lower(str(street)) \o <<" ">>
        \o lower(str(city)) \o <<" ">> \o str(zip_code)

apartment_indicators ==
    {<<"a", "p", "t">>, <<"s", "u", "i", "t", "e">>, <<"s", "t", "e">>,
     <<"u", "n", "i", "t">>, <<"#">>, <<"f", "l", "o", "o", "r">>, <<"f", "l">>}

\* is_apartment(prop)
is_apartment(prop) ==
    \/ Get(prop, "propertyType", None) = <<"A", "p", "a", "r", "t", "m", "e", "n", "t">>
    \/ LET addr_line2 == str(Get(prop, "addressLine2", <<>>))
       IN  /\ addr_line2 # <<>>
           /\ \E indicator \in apartment_indicators :
                  Contains(lower(addr_line2), indicator)

\* parts = address_line1.strip().split(' ', 1)
Parts(prop) == split(strip(prop["addressLine1"]))

\* The tests process_batch and the grouping loop of process_data both make
\* before they use a property: not an apartment, an address line that
\* splits into a number and a street, a city and a zip code
Usable(prop) ==
    /\ ~is_apartment(prop)
    /\ NonEmpty(Get(prop, "addressLine1", <<>>))
    /\ Len(Parts(prop)) = 2
    /\ isdigit(Parts(prop)[1])
    /\ NonEmpty(Parts(prop)[2])
    /\ NonEmpty(Get(prop, "city", <<>>))
    /\ NonEmpty(Get(prop, "zipCode", <<>>))

\* norm_addr_no_city and norm_addr of a usable property
NoCityKey(prop) ==
    normalize_address_without_city(Parts(prop)[1], Parts(prop)[2], prop["zipCode"])

FullKey(prop) ==
    normalize_address(Parts(prop)[1], Parts(prop)[2], Get(prop, "city", <<>>),
                      Get(prop, "zipCode", <<>>))

---------------------------------------------------------------------------
(* joinPermitsRentcast.process_batch and process_data *)

\* permits_df of process_data: the rows of permits.csv of the state, each
\* with its normalized_address
StatePermits(csv, state) ==
    LET InState(row) == row.state = state
        rows == SelectSeq(csv, InState)
    IN  [j \in DOMAIN rows |->
            [permit_id |-> rows[j].permit_id, state |-> rows[j].state,
             street_no |-> rows[j].street_no, street |-> rows[j].street,
             city |-> rows[j].city, zip_code |-> rows[j].zip_code,
             normalized_address |->
                 normalize_address(rows[j].street_no, rows[j].street,
                                   rows[j].city, rows[j].zip_code)]]

\* permits_df[permits_df['normalized_address'] == norm_addr]
PermitMatches(permits, norm_addr) ==
    LET Same(row) == row.normalized_address = norm_addr
    IN  SelectSeq(permits, Same)

\* The pairs process_batch appends for one property of the batch
MatchesOfProperty(prop, permits) ==
    IF Usable(prop)
    THEN LET permit_matches == PermitMatches(permits, FullKey(prop))
         IN  [k \in DOMAIN permit_matches |->
                 [property |-> prop, permit |-> permit_matches[k]]]
    ELSE <<>>

\* A batch pass that keeps only the first matching permit of a property
process_batch_FirstPermitOnly(batch, permits) ==
    Flatten([i \in DOMAIN batch |->
               IF MatchesOfProperty(batch[i], permits) = <<>> THEN <<>>
               ELSE <<MatchesOfProperty(batch[i], permits)[1]>>])

\* process_batch(batch, permits_df)
process_batch(batch, permits) ==
    Flatten([i \in DOMAIN batch |-> MatchesOfProperty(batch[i], permits)])

\* The keys of property_groups in the order the loop inserts them
RECURSIVE GroupKeys(_, _)
GroupKeys(properties, seen) ==
    IF properties = <<>> THEN <<>>
    ELSE IF Usable(Head(properties)) /\ NoCityKey(Head(properties)) \notin seen
    THEN <<NoCityKey(Head(properties))>>
             \o GroupKeys(Tail(properties), seen \cup {NoCityKey(Head(properties))})
    ELSE GroupKeys(Tail(properties), seen)

\* property_groups[key]
AddrGroup(properties, key) ==
    LET InGroup(prop) == Usable(prop) /\ NoCityKey(prop) = key
    IN  SelectSeq(properties, InGroup)

\* A resolution that keeps the first member of every group
Resolve_AlwaysFirst(addr_group, permits) == <<addr_group[1]>>

\* A resolution that keeps every member that has a permit match
Resolve_KeepsEveryMatch(addr_group, permits) ==
    LET Matched(prop) == PermitMatches(permits, FullKey(prop)) # <<>>
    IN  IF SelectSeq(addr_group, Matched) # <<>>
        THEN SelectSeq(addr_group, Matched)
        ELSE <<addr_group[1]>>

\* What the loop over property_groups.values() appends for one group: the
\* only member, or the first member whose full address has a permit, or the
\* first member when none has
Resolve(addr_group, permits) ==
    LET Matched(prop) == PermitMatches(permits, FullKey(prop)) # <<>>
    IN  IF Len(addr_group) = 1 THEN <<addr_group[1]>>
        ELSE IF SelectSeq(addr_group, Matched) # <<>>
        THEN <<SelectSeq(addr_group, Matched)[1]>>
        ELSE <<addr_group[1]>>

\* unique_properties
UniqueProperties(properties, permits) ==
    LET keys == GroupKeys(properties, {})
    IN  Flatten([i \in DOMAIN keys |->
                   Resolve(AddrGroup(properties, keys[i]), permits)])

\* Batches that each start one property early, so that neighbours overlap
Batches_Overlapping(unique_properties, batch_size) ==
    LET num_batches == (Len(unique_properties) + batch_size - 1) \div batch_size
    IN  [i \in 1..num_batches |->
            SubSeq(unique_properties,
                   IF i = 1 THEN 1 ELSE (i - 1) * batch_size,
                   IF i * batch_size < Len(unique_properties)
                   THEN i * batch_size ELSE Len(unique_properties))]

\* batches: unique_properties[i * batch_size:(i + 1) * batch_size]
Batches(unique_properties, batch_size) ==
    LET num_batches == (Len(unique_properties) + batch_size - 1) \div batch_size
    IN  [i \in 1..num_batches |->
            SubSeq(unique_properties, (i - 1) * batch_size + 1,
                   IF i * batch_size < Len(unique_properties)
                   THEN i * batch_size ELSE Len(unique_properties))]

\* process_data(state) up to the pool: permits.csv and the merged file are
\* read, the properties are grouped and resolved and cut into batches.
\* Pool(processes=cpu_count() - 1) raises ValueError on a single CPU.
ProcessData ==
    /\ join.pc = "start"
    /\ LET permits == StatePermits(join.csv, join.state)
           unique_properties == UniqueProperties(join.merged, permits)
           batches == Batches(unique_properties, join.batch_size)
       IN  join' = [join EXCEPT
                       !.permits_df = permits,
                       !.unique_properties = unique_properties,
                       !.batches = batches,
                       !.pending = IF join.cpu_count - 1 < 1 THEN {} ELSE DOMAIN batches,
                       !.pc = IF join.cpu_count - 1 < 1 THEN "ValueError" ELSE "pool"]
    /\ UNCHANGED <<matches_files, properties_df, permits_df, property_permit_map, permit_property_map, initialized, load_error, call, result, prev, filter_state, saved_audiences, audience_files>>

\* One result of pool.imap_unordered arrives and is appended to
\* batch_results: any pending batch when the pool has several workers, the
\* next batch in order when it has one
BatchDone(i) ==
    /\ join.pc = "pool"
    /\ i \in join.pending
    /\ join.cpu_count - 1 = 1 => \A k \in join.pending : i <= k
    /\ join' = [join EXCEPT
                   !.batch_results = @ \o process_batch(join.batches[i], join.permits_df),
                   !.pending = @ \ {i}]
    /\ UNCHANGED <<matches_files, properties_df, permits_df, property_permit_map, permit_property_map, initialized, load_error, call, result, prev, filter_state, saved_audiences, audience_files>>

\* json.dump(batch_results) into <state>_matches.json, after the last batch
SaveMatches ==
    /\ join.pc = "pool"
    /\ join.pending = {}
    /\ join' = [join EXCEPT !.output = join.batch_results, !.pc = "done"]
    /\ UNCHANGED <<matches_files, properties_df, permits_df, property_permit_map, permit_property_map, initialized, load_error, call, result, prev, filter_state, saved_audiences, audience_files>>

\* The longest merged property list and the largest batch size
MaxProperties == 3
MaxBatch == 2

\* Properties of the merged file: the same street address under two cities,
\* a unit of it, a line with no street number, and another address
HouseRock ==
    [id |-> "h1", addressLine1 |-> <<"1", " ", "M", "a">>, city |-> <<"R">>,
     zipCode |-> <<"2", "A">>]

HouseSalem ==
    [id |-> "h2", addressLine1 |-> <<"1", " ", "M", "a">>, city |-> <<"S">>,
     zipCode |-> <<"2", "A">>]

HouseUnit ==
    [id |-> "h3", addressLine1 |-> <<"1", " ", "M", "a">>,
     addressLine2 |-> <<"U", "n", "i", "t", " ", "2">>, city |-> <<"R">>,
     zipCode |-> <<"2", "A">>]

HouseNoNumber ==
    [id |-> "h4", addressLine1 |-> <<"M", "a">>, city |-> <<"R">>,
     zipCode |-> <<"2", "A">>]

HouseOther ==
    [id |-> "h5", addressLine1 |-> <<" ", "2", " ", "M", "a">>, city |-> <<"r">>,
     zipCode |-> <<"2", "A">>, addressLine2 |-> None]

MergedProperties == {HouseRock, HouseSalem, HouseUnit, HouseNoNumber, HouseOther}

\* A row of permits.csv
CsvRow(permit_id, state, street_no, street, city, zip_code) ==
    [permit_id |-> permit_id, state |-> state, street_no |-> street_no,
     street |-> street, city |-> city, zip_code |-> zip_code]

\* permits.csv: empty; a permit at the second city's variant; two permits
\* at the first variant with one in another state and one whose zip code
\* differs in case; permits at both variants and at the other address, and
\* one with an empty street number cell
PermitTables ==
    {<<>>,
     <<CsvRow("t1", "VA", <<"1">>, <<"M", "A">>, <<"S">>, <<"2", "A">>)>>,
     <<CsvRow("t2", "VA", <<"1">>, <<"m", "a">>, <<"R">>, <<"2", "A">>),
       CsvRow("t3", "VA", <<"1">>, <<"M", "a">>, <<"r">>, <<"2", "A">>),
       CsvRow("t4", "MD", <<"1">>, <<"M", "a">>, <<"R">>, <<"2", "A">>),
       CsvRow("t5", "VA", <<"1">>, <<"M", "a">>, <<"R">>, <<"2", "a">>)>>,
     <<CsvRow("t6", "VA", <<"1">>, <<"M", "a">>, <<"R">>, <<"2", "A">>),
       CsvRow("t7", "VA", <<"2">>, <<"M", "a">>, <<"R">>, <<"2", "A">>),
       CsvRow("t8", "VA", NaN, <<"M", "a">>, <<"R">>, <<"2", "A">>),
       CsvRow("t9", "VA", <<"1">>, <<"M", "a">>, <<"S">>, <<"2", "A">>)>>}

\* os.cpu_count(): one CPU leaves the pool no worker, two leave it one
CpuCounts == {1, 2, 3}

JoinInputs ==
    {[pc |-> "start", state |-> "VA", csv |-> csv, merged |-> merged,
      batch_size |-> batch_size, cpu_count |-> cpu_count,
      permits_df |-> <<>>, unique_properties |-> <<>>, batches |-> <<>>,
      pending |-> {}, batch_results |-> <<>>, output |-> <<>>] :
        csv \in PermitTables, merged \in SeqsUpTo(MergedProperties, MaxProperties),
        batch_size \in 1..MaxBatch, cpu_count \in CpuCounts}

NextJoin ==
    \/ ProcessData
    \/ \E i \in 1..MaxProperties : BatchDone(i)
    \/ SaveMatches

InitJoin ==
    /\ join \in JoinInputs
    /\ matches_files = [r \in Range(Regions) |-> Missing]
    /\ audience_files = NoAudienceFiles
    /\ saved_audiences = <<>>
    /\ filter_state = <<>>
    /\ properties_df = None
    /\ permits_df = None
    /\ property_permit_map = <<>>
    /\ permit_property_map = <<>>
    /\ initialized = FALSE
    /\ load_error = "none"
    /\ call = NoCall
    /\ result = NoResult
    /\ prev = NoPrev

SpecJoin == InitJoin /\ [][NextJoin]_vars

---------------------------------------------------------------------------
(* joinPermitsRentcast.main *)

\* for state in ['VA']
MainStates == <<"VA">>

\* main() at the head of its loop: os.path.exists on the region's merged
\* file; process_data(state) is entered when it exists, and the region is
\* skipped with a notice when it does not
MainLoop ==
    /\ join.pc = "main"
    /\ join.todo # <<>>
    /\ LET state == Head(join.todo)
       IN  IF join.merged_files[state].exists
           THEN join' = [join EXCEPT
                            !.todo = Tail(@), !.state = state,
                            !.merged = join.merged_files[state].properties,
                            !.permits_df = <<>>, !.unique_properties = <<>>,
                            !.batches = <<>>, !.pending = {},
                            !.batch_results = <<>>, !.output = <<>>,
                            !.pc = "start"]
           ELSE join' = [join EXCEPT !.todo = Tail(@),
                                     !.skipped = Append(@, state)]
    /\ UNCHANGED <<matches_files, properties_df, permits_df, property_permit_map, permit_property_map, initialized, load_error, call, result, prev, filter_state, saved_audiences, audience_files>>

\* process_data(state) returns to the loop of main
ProcessDataReturns ==
    /\ join.pc = "done"
    /\ join' = [join EXCEPT !.processed = Append(@, join.state), !.pc = "main"]
    /\ UNCHANGED <<matches_files, properties_df, permits_df, property_permit_map, permit_property_map, initialized, load_error, call, result, prev, filter_state, saved_audiences, audience_files>>

\* main() returns after the last region. An exception of process_data has
\* no handler in main: at pc "ValueError" the loop is never resumed.
MainReturns ==
    /\ join.pc = "main"
    /\ join.todo = <<>>
    /\ join' = [join EXCEPT !.pc = "returned"]
    /\ UNCHANGED <<matches_files, properties_df, permits_df, property_permit_map, permit_property_map, initialized, load_error, call, result, prev, filter_state, saved_audiences, audience_files>>

\* <state>/<state>_merged.json: absent, or a list of properties
MergedFiles ==
    {[exists |-> FALSE]}
        \cup {[exists |-> TRUE, properties |-> merged] :
                 merged \in SeqsUpTo(MergedProperties, MaxProperties)}

MainInputs ==
    {[pc |-> "main", todo |-> MainStates, merged_files |-> merged_files,
      skipped |-> <<>>, processed |-> <<>>, state |-> "", csv |-> csv,
      merged |-> <<>>, batch_size |-> 1, cpu_count |-> cpu_count,
      permits_df |-> <<>>, unique_properties |-> <<>>, batches |-> <<>>,
      pending |-> {}, batch_results |-> <<>>, output |-> <<>>] :
        csv \in PermitTables,
        merged_files \in [Range(MainStates) -> MergedFiles],
        cpu_count \in CpuCounts}

NextMain ==
    \/ MainLoop
    \/ ProcessData
    \/ \E i \in 1..MaxProperties : BatchDone(i)
    \/ SaveMatches
    \/ ProcessDataReturns
    \/ MainReturns

InitMain ==
    /\ join \in MainInputs
    /\ matches_files = [r \in Range(Regions) |-> Missing]
    /\ audience_files = NoAudienceFiles
    /\ saved_audiences = <<>>
    /\ filter_state = <<>>
    /\ properties_df = None
    /\ permits_df = None
    /\ property_permit_map = <<>>
    /\ permit_property_map = <<>>
    /\ initialized = FALSE
    /\ load_error = "none"
    /\ call = NoCall
    /\ result = NoResult
    /\ prev = NoPrev

SpecMain == InitMain /\ [][NextMain]_vars

---------------------------------------------------------------------------
(* Claims about build_audience and load_data *)

Built == call.op = "build_audience" /\ result.raised = "none"

\* The properties owning, under the stored permit->property index, at least
\* one permit that passes filter_permits
OwnersOfFilteredPermits(permit_filters) ==
    {permit_property_map[q] :
        q \in {r.permit_id : r \in Range(filter_permits(permit_filters, permits_df))}
               \cap DOMAIN permit_property_map}

PassesFilterProperties(kwargs, row) ==
    row \in Range(filter_properties(kwargs, properties_df, permits_df,
                                    property_permit_map))

\* C1: the 'results' table of build_audience holds exactly the rows of the
\* properties table that pass filter_properties, are not in
\* exclude_properties and own, under the permit->property index, at least one
\* permit that passes filter_permits.
C1_ResultsExact ==
    Built =>
        LET InResults(row) ==
                /\ PassesFilterProperties(call.property_filters, row)
                /\ row.id \notin Range(call.exclude_properties)
                /\ row.id \in OwnersOfFilteredPermits(call.permit_filters)
        IN  result.results = SelectSeq(properties_df, InResults)

\* A build with filters on both tables and an exclude list, in which a
\* property is kept, one is excluded and one fails a criterion
C1_Witness ==
    /\ Built
    /\ call.property_filters # NoFilters
    /\ call.permit_filters # NoFilters
    /\ call.exclude_properties # <<>>
    /\ result.results # <<>>
    /\ Len(filter_permits(call.permit_filters, permits_df)) < Len(permits_df)
    /\ \E i \in DOMAIN properties_df :
           properties_df[i].id \in Range(call.exclude_properties)

\* C2: final_matches <= matching_properties, and final_matches <= the number
\* of distinct properties the index maps from the permits counted in
\* matching_permits.
C2_CountsConsistent ==
    Built =>
        /\ result.final_matches <= result.matching_properties
        /\ result.final_matches <=
               Cardinality(OwnersOfFilteredPermits(call.permit_filters))

\* C5: after load_data each property id occurs at most once in the
\* properties table.
C5_UniquePropertyIds ==
    initialized =>
        \A i, j \in DOMAIN properties_df :
            properties_df[i].id = properties_df[j].id => i = j

\* The build before the last one was the same call with one identifier less
\* in its exclude list
ExcludedOneMore ==
    /\ call.op = "build_audience"
    /\ prev.call.op = "build_audience"
    /\ result.raised = "none"
    /\ prev.result.raised = "none"

AddedId == call.exclude_properties[Len(call.exclude_properties)]

LoadedIds == {properties_df[i].id : i \in DOMAIN properties_df}

\* C7: adding an id to exclude_properties never increases total_properties
\* or final_matches; total_properties strictly decreases when the id is a
\* loaded property not already excluded, final_matches strictly decreases
\* when the id was in the final result, and both stay equal when the id is
\* absent from the dataset or was already excluded.
C7_ExcludeMonotone ==
    ExcludedOneMore =>
        LET before == prev.result
            fresh == AddedId \in LoadedIds
                        /\ AddedId \notin Range(prev.call.exclude_properties)
        IN  /\ result.total_properties <= before.total_properties
            /\ result.final_matches <= before.final_matches
            /\ fresh => result.total_properties < before.total_properties
            /\ AddedId \in {r.id : r \in Range(before.results)} =>
                   result.final_matches < before.final_matches
            /\ ~fresh =>
                   /\ result.total_properties = before.total_properties
                   /\ result.final_matches = before.final_matches

\* An id of the final result is added to a non-empty exclude list and both
\* counts drop, while another property stays in the result
C7_Witness ==
    /\ ExcludedOneMore
    /\ prev.call.exclude_properties # <<>>
    /\ AddedId \in {r.id : r \in Range(prev.result.results)}
    /\ result.final_matches < prev.result.final_matches
    /\ result.total_properties < prev.result.total_properties

---------------------------------------------------------------------------
(* Claims about the sale-to-permit constraint *)

GapFiltered ==
    /\ call.op = "filter_properties"
    /\ SaleToPermitGiven(call.kwargs)

\* The indexed permits of a property that have a row with a date
DatedPermitRows(property_id) ==
    {j \in DOMAIN permits_df :
        /\ property_id \in DOMAIN property_permit_map
        /\ permits_df[j].permit_id \in Range(property_permit_map[property_id])
        /\ NotNa(permits_df[j].file_date)}

\* The permit of row j is the only row of the permits table with its id
SinglePermitRow(j) ==
    \A k \in DOMAIN permits_df :
        permits_df[k].permit_id = permits_df[j].permit_id => k = j

\* C3: with the sale-to-permit constraint active, a property with a sale
\* date is kept whenever at least one of its indexed permits has a date whose
\* gap (in days / 365.25) lies within the inclusive bounds, however many of
\* its other permits lie outside them (stated for permits whose id is
\* unique in the permits table, as the data model has it).
C3_AnyPermitInRangeKeeps ==
    GapFiltered =>
        \A i \in DOMAIN properties_df :
            LET row == properties_df[i]
            IN  (/\ NotNa(row.lastSaleDate)
                 /\ \E j \in DatedPermitRows(row.id) :
                        /\ SinglePermitRow(j)
                        /\ WithinRange(call.kwargs,
                               DaysBetween(permits_df[j].file_date, row.lastSaleDate)))
                => row \in Range(result.rows)

\* C4: with the sale-to-permit constraint active, filter_properties returns
\* no property whose lastSaleDate is null and no property without an indexed
\* permit that has a date.
C4_NoSaleOrNoDatedPermitDropped ==
    GapFiltered =>
        \A i \in DOMAIN result.rows :
            /\ NotNa(result.rows[i].lastSaleDate)
            /\ DatedPermitRows(result.rows[i].id) # {}

\* The constraint is active, a property with a dated permit in range is
\* kept, and the table also holds a property without a sale date
C4_Witness ==
    /\ GapFiltered
    /\ result.rows # <<>>
    /\ \E i \in DOMAIN properties_df :
           /\ ~NotNa(properties_df[i].lastSaleDate)
           /\ DatedPermitRows(properties_df[i].id) # {}

\* The constraint is active and a property with a sale date has only an
\* undated permit
C4_WitnessUndated ==
    /\ GapFiltered
    /\ \E i \in DOMAIN properties_df :
           /\ NotNa(properties_df[i].lastSaleDate)
           /\ properties_df[i].id \in DOMAIN property_permit_map
           /\ DatedPermitRows(properties_df[i].id) = {}

---------------------------------------------------------------------------
(* Claims about null values and unset constraints *)

\* The column each range constraint of filter_properties reads
RangeColumns ==
    {<<"min_year_built", "max_year_built", "yearBuilt">>,
     <<"min_sale_year", "max_sale_year", "lastSaleDate">>,
     <<"min_sale_price", "max_sale_price", "lastSalePrice">>,
     <<"min_beds", "max_beds", "beds">>,
     <<"min_baths", "max_baths", "baths">>,
     <<"min_sqft", "max_sqft", "buildingSize">>}

BoundSet(kwargs, min_param, max_param) ==
    IsGiven(kwargs, min_param) \/ IsGiven(kwargs, max_param)

\* The part of C8 about filter_properties
PropertyNullsExcluded ==
    call.op = "filter_properties" =>
        \A c \in RangeColumns :
            BoundSet(call.kwargs, c[1], c[2]) =>
                \A i \in DOMAIN result.rows : NotNa(result.rows[i][c[3]])

\* The part of C8 about filter_permits
PermitNullsExcluded ==
    call.op = "filter_permits" =>
        (BoundSet(call.kwargs, "min_permit_year", "max_permit_year") =>
            \A i \in DOMAIN result.rows : NotNa(result.rows[i].file_date))

\* C8: for every range constraint of filter_properties and of
\* filter_permits, when at least one bound of the constraint is set, every
\* record whose value for that field is null is absent from the result.
C8_NullsExcluded == PropertyNullsExcluded /\ PermitNullsExcluded

\* Every key of the configuration is None or an empty list
AllUnset(kwargs) ==
    \A k \in DOMAIN kwargs : kwargs[k] = None \/ kwargs[k] = <<>>

Filtered == call.op \in {"filter_properties", "filter_permits"}

TableOf(op) == IF op = "filter_properties" THEN properties_df ELSE permits_df

\* C10: an absent, None or empty-list constraint imposes no restriction:
\* with nothing set filter_properties returns every loaded property and
\* filter_permits returns every loaded permit, and leaving one constraint
\* of a configuration unset never removes a record from the result.
C10_UnsetImposesNothing ==
    /\ (Filtered /\ AllUnset(call.kwargs)) => result.rows = TableOf(call.op)
    /\ (Filtered /\ prev.call.op = call.op) =>
           /\ Range(prev.result.rows) \subseteq Range(result.rows)
           /\ Len(prev.result.rows) <= Len(result.rows)

\* Leaving a constraint unset brought back a property with a null field, and
\* the configuration now sets nothing and returns the whole table
C10_Witness ==
    /\ call.op = "filter_properties"
    /\ prev.call.op = "filter_properties"
    /\ AllUnset(call.kwargs)
    /\ Len(prev.result.rows) < Len(result.rows)
    /\ \E i \in DOMAIN result.rows : ~NotNa(result.rows[i].beds)


---------------------------------------------------------------------------
(* Claims about the session: saved audiences and the include-null toggles *)

\* The rows whose id, as the string an audience holds, is in a saved audience
SavedRows ==
    {i \in DOMAIN properties_df :
        PyStr(properties_df[i].id) \in ExcludedProperties(saved_audiences)}

\* C6: while an audience is saved in the session, no property whose id
\* belongs to it appears in the 'results' of a build of the Audience Builder
\* tab, and none is counted in total_properties.
C6_SavedIdsExcluded ==
    TabsShown =>
        /\ \A i \in SavedRows : properties_df[i] \notin Range(result.results)
        /\ result.total_properties = Len(properties_df) - Cardinality(SavedRows)

\* The include-null toggles: the session key, the column it speaks of and
\* the engine parameters that constrain the column
NullToggles ==
    {<<"include_null_year_built", "yearBuilt", {"min_year_built", "max_year_built"}>>,
     <<"include_null_beds", "beds", {"min_beds", "max_beds"}>>,
     <<"include_null_baths", "baths", {"min_baths", "max_baths"}>>,
     <<"include_null_sqft", "buildingSize", {"min_sqft", "max_sqft"}>>,
     <<"include_null_sale_date", "lastSaleDate", {"min_sale_year", "max_sale_year"}>>,
     <<"include_null_sale_price", "lastSalePrice", {"min_sale_price", "max_sale_price"}>>,
     <<"include_null_property_type", "propertyType", {"property_types"}>>,
     <<"include_null_sale_to_permit", "sale_to_permit",
       {"min_sale_to_permit_years", "max_sale_to_permit_years"}>>}

\* The row has no value for the toggle's field
NullIn(row, column) ==
    CASE column = "sale_to_permit" ->
             ~NotNa(row.lastSaleDate) \/ DatedPermitRows(row.id) = {}
      [] column = "propertyType" ->
             ~NotNa(row.propertyType) \/ row.propertyType = Text("Unknown")
      [] OTHER -> ~NotNa(row[column])

Without(kwargs, keys) == [k \in DOMAIN kwargs \ keys |-> kwargs[k]]

\* C9: when an include-null toggle is on and a constraint is set on its
\* field, a record with no value for the field that meets every other
\* criterion of the build is in the 'results' of build_audience.
C9_ToggleKeepsNulls ==
    TabsShown =>
        \A t \in NullToggles, i \in DOMAIN properties_df :
            (/\ filter_state[t[1]]
             /\ t[3] \cap DOMAIN call.property_filters # {}
             /\ NullIn(properties_df[i], t[2])
             /\ PassesFilterProperties(Without(call.property_filters, t[3]),
                                       properties_df[i])
             /\ properties_df[i].id \notin Range(call.exclude_properties)
             /\ properties_df[i].id \in OwnersOfFilteredPermits(call.permit_filters))
            => properties_df[i] \in Range(result.results)


---------------------------------------------------------------------------
(* Claims about the range and list constraints of filter_properties *)

\* The number a range constraint compares: the cell, or the year of a date
ValueOf(row, column) ==
    IF column = "lastSaleDate" THEN YearIn(row[column]) ELSE NumberIn(row[column])

\* (min is unset or v >= min) and (max is unset or v <= max)
WithinBounds(kwargs, min_param, max_param, v) ==
    /\ Get(kwargs, min_param, None) = None \/ v >= kwargs[min_param][2]
    /\ Get(kwargs, max_param, None) = None \/ v <= kwargs[max_param][2]

\* C11: every range constraint of filter_properties is inclusive at both
\* ends and each bound works alone: a record with a non-null value v is
\* returned only if (min unset or v >= min) and (max unset or v <= max), and
\* is returned when that holds and no other constraint is set.
C11_RangesInclusive ==
    call.op = "filter_properties" =>
        \A c \in RangeColumns, i \in DOMAIN properties_df :
            LET row == properties_df[i]
                within == WithinBounds(call.kwargs, c[1], c[2], ValueOf(row, c[3]))
            IN  NotNa(row[c[3]]) =>
                    /\ row \in Range(result.rows) => within
                    /\ (DOMAIN call.kwargs \subseteq {c[1], c[2]} /\ within)
                           => row \in Range(result.rows)

\* min_beds = max_beds = 2 keeps a property with two bedrooms and drops one
\* with another number of bedrooms
C11_Witness ==
    /\ call.op = "filter_properties"
    /\ DOMAIN call.kwargs = {"min_beds", "max_beds"}
    /\ call.kwargs["min_beds"] = Num(2) /\ call.kwargs["max_beds"] = Num(2)
    /\ \E i \in DOMAIN result.rows : result.rows[i].beds = Num(2)
    /\ \E i \in DOMAIN properties_df :
           /\ NotNa(properties_df[i].beds)
           /\ properties_df[i] \notin Range(result.rows)


\* The property type of the row is null or the placeholder
NoPropertyType(row) ==
    ~NotNa(row.propertyType) \/ row.propertyType = Text("Unknown")

\* The property type of the row is a member of the list
TypeIn(row, property_types) ==
    \E k \in DOMAIN property_types : row.propertyType = Text(property_types[k])

\* C12: with a non-empty property_types constraint, a property whose type
\* is null or "Unknown" is never returned by filter_properties, even when
\* "Unknown" is in the list; any other property is returned only if its type
\* is in the list, and is returned by this stage when it is.
C12_UnknownNeverSelected ==
    (call.op = "filter_properties" /\ ListGiven(call.kwargs, "property_types")) =>
        \A i \in DOMAIN properties_df :
            LET row == properties_df[i]
                listed == TypeIn(row, call.kwargs["property_types"])
            IN  IF NoPropertyType(row)
                THEN row \notin Range(result.rows)
                ELSE /\ row \in Range(result.rows) => listed
                     /\ (DOMAIN call.kwargs = {"property_types"} /\ listed)
                            => row \in Range(result.rows)

\* "Unknown" is in the list, a property of the placeholder type is dropped
\* and a property of another listed type is returned
C12_Witness ==
    /\ call.op = "filter_properties"
    /\ ListGiven(call.kwargs, "property_types")
    /\ "Unknown" \in Range(call.kwargs["property_types"])
    /\ \E i \in DOMAIN properties_df :
           /\ properties_df[i].propertyType = Text("Unknown")
           /\ properties_df[i] \notin Range(result.rows)
    /\ result.rows # <<>>


---------------------------------------------------------------------------
(* Claims about the loaded dataset *)

\* C13: filter_properties, filter_permits and build_audience leave the
\* loaded dataset unchanged: after any sequence of these calls the two
\* tables and the stored index are what load_data made of the match files.
C13_DatasetUnchanged ==
    initialized =>
        /\ properties_df = LoadOutcome(matches_files).properties_df
        /\ permits_df = LoadOutcome(matches_files).permits_df
        /\ property_permit_map = LoadOutcome(matches_files).index.property_permit_map
        /\ permit_property_map = LoadOutcome(matches_files).index.permit_property_map

\* A build that returned every permit with its property_id annotation
C13_Witness ==
    /\ Built
    /\ result.filtered_permits # <<>>
    /\ Len(result.filtered_permits) = Len(permits_df)
    /\ \A j \in DOMAIN result.filtered_permits :
           "property_id" \in DOMAIN result.filtered_permits[j]
    /\ \A j \in DOMAIN permits_df : "property_id" \notin DOMAIN permits_df[j]


\* load_data has been called
LoadAttempted == initialized \/ load_error # "none"

\* The match objects of a region's file that hold a property record
PropertyRecordsOf(file) ==
    {i \in DOMAIN file.matches : "property" \in DOMAIN file.matches[i]}

\* No region's match file contributed a property record
NoPropertyRecord ==
    \A r \in Range(Regions) :
        ~matches_files[r].exists \/ PropertyRecordsOf(matches_files[r]) = {}

\* C14: load_data raises ValueError exactly when no property record was
\* accumulated from any region's match file, and then sets neither
\* properties_df nor permits_df.
C14_ValueErrorIffNoProperty ==
    LoadAttempted =>
        /\ load_error = "ValueError" <=> NoPropertyRecord
        /\ load_error = "ValueError" => properties_df = None /\ permits_df = None

\* load_data raised ValueError on a readable file that holds a match, and
\* the match has no property
C14_Witness ==
    /\ load_error = "ValueError"
    /\ \E r \in Range(Regions) :
           matches_files[r].exists /\ matches_files[r].matches # <<>>

\* The region yields no usable record: its file is missing or holds no match
RegionEmpty(r) == ~matches_files[r].exists \/ matches_files[r].matches = <<>>

\* C15: load_data fails whenever one of the configured regions yields zero
\* usable records, even if another region yields records.
C15_FailsFastPerRegion ==
    LoadAttempted =>
        ((\E r \in Range(Regions) : RegionEmpty(r)) => load_error # "none")


---------------------------------------------------------------------------
(* Claims about the address join *)

\* process_data has resolved the duplicates and cut the batches
Resolved == join.pc \in {"pool", "done"}

\* The no-city keys of the usable properties of the merged file
MergedKeys ==
    {NoCityKey(join.merged[i]) :
        i \in {k \in DOMAIN join.merged : Usable(join.merged[k])}}

\* The members of unique_properties with the key
Survivors(key) ==
    {j \in DOMAIN join.unique_properties :
        NoCityKey(join.unique_properties[j]) = key}

\* C16: after duplicate resolution exactly one property survives for every
\* group of usable properties with the same no-city key: unique_properties
\* holds one member of each group and no two of its members share a key.
C16_OneSurvivorPerGroup ==
    Resolved =>
        /\ \A j \in DOMAIN join.unique_properties :
               /\ join.unique_properties[j] \in Range(join.merged)
               /\ Usable(join.unique_properties[j])
        /\ \A key \in MergedKeys : Cardinality(Survivors(key)) = 1

\* Two variants of one address, both with a permit, were resolved to one
C16_Witness ==
    /\ Resolved
    /\ HouseRock \in Range(join.merged) /\ HouseSalem \in Range(join.merged)
    /\ PermitMatches(join.permits_df, FullKey(HouseRock)) # <<>>
    /\ PermitMatches(join.permits_df, FullKey(HouseSalem)) # <<>>
    /\ Cardinality(Survivors(NoCityKey(HouseRock))) = 1

\* The number of places of the sequence that hold x
CountIn(seq, x) == Cardinality({n \in DOMAIN seq : seq[n] = x})

\* C17: the match output holds the pair (property, permit) iff the property
\* is a member of unique_properties, is usable (no apartment, a numeric
\* street number) and the permit's normalized_address equals
\* normalize_address of the property; it holds one pair per matching permit
\* row, and no apartment.
C17_OutputExact ==
    join.pc = "done" =>
        /\ \A n \in DOMAIN join.output :
               /\ join.output[n].property \in Range(join.unique_properties)
               /\ Usable(join.output[n].property)
               /\ ~is_apartment(join.output[n].property)
               /\ join.output[n].permit \in Range(join.permits_df)
               /\ join.output[n].permit.normalized_address
                      = FullKey(join.output[n].property)
        /\ \A j \in DOMAIN join.unique_properties, k \in DOMAIN join.permits_df :
               (join.permits_df[k].normalized_address
                    = FullKey(join.unique_properties[j]))
               => CountIn(join.output, [property |-> join.unique_properties[j],
                                        permit |-> join.permits_df[k]])
                      = CountIn(join.permits_df, join.permits_df[k])

\* An output with two permits of one property, from a merged file that also
\* holds an apartment at the address
C17_Witness ==
    /\ join.pc = "done"
    /\ HouseUnit \in Range(join.merged)
    /\ \E n, o \in DOMAIN join.output :
           /\ join.output[n].property = join.output[o].property
           /\ join.output[n].permit # join.output[o].permit

\* C18: for every property list, permit table, batch size and completion
\* order of the batches, the concatenated batch results are, as a multiset,
\* process_batch of all unique properties as one batch, and every unique
\* property is in exactly one batch.
C18_BatchesEqualSequential ==
    /\ Resolved => Flatten(join.batches) = join.unique_properties
    /\ join.pc = "done" =>
           LET sequential == process_batch(join.unique_properties, join.permits_df)
           IN  \A pair \in Range(sequential) \cup Range(join.output) :
                   CountIn(join.output, pair) = CountIn(sequential, pair)

\* Batches that completed out of order: the output is not the sequential
\* result as a sequence
C18_Witness ==
    /\ join.pc = "done"
    /\ Len(join.batches) >= 2
    /\ join.output # process_batch(join.unique_properties, join.permits_df)

\* The four components of the two permit rows are equal up to letter case
SameUpToCase(a, b) ==
    /\ lower(str(a.street_no)) = lower(str(b.street_no))
    /\ lower(str(a.street)) = lower(str(b.street))
    /\ lower(str(a.city)) = lower(str(b.city))
    /\ lower(str(a.zip_code)) = lower(str(b.zip_code))

\* C19: normalize_address lower-cases every component, the zip code
\* included: two inputs that differ only in letter case have equal keys.
C19_CaseInsensitive ==
    Resolved =>
        \A j, k \in DOMAIN join.permits_df :
            SameUpToCase(join.permits_df[j], join.permits_df[k])
            => join.permits_df[j].normalized_address
                   = join.permits_df[k].normalized_address


---------------------------------------------------------------------------
(* Claims about the saved audience files *)

\* C20: saving an audience and then loading the saved audiences yields,
\* under that audience's name, exactly the set of ids that was saved, and
\* the audiences saved under other names load back unchanged: every
\* audience of the session is what load_saved_audiences reads from disk.
C20_SaveThenLoad ==
    initialized =>
        \A name \in DOMAIN saved_audiences :
            /\ name \in DOMAIN load_saved_audiences(audience_files)
            /\ load_saved_audiences(audience_files)[name] = saved_audiences[name]

\* ---------------------------------------------------------------------
\* C21: audience names are unique and audiences are immutable within a
\* session: no step changes the id set the session holds under a name that
\* is saved before and after the step, and a step that leaves the set of
\* saved names as it was (a rejected save among them) changes no audience
\* file
C21_AudiencesImmutable ==
    [][/\ \A n \in DOMAIN saved_audiences \cap DOMAIN saved_audiences' :
              saved_audiences'[n] = saved_audiences[n]
       /\ DOMAIN saved_audiences' = DOMAIN saved_audiences
              => audience_files' = audience_files]_vars

\* two audiences saved one after the other in the session, the second save
\* made with the first audience in place, and the tabs shown so that a save
\* under either name is a rejected one
C21_Witness ==
    /\ TabsShown
    /\ {"a", "../b"} \subseteq DOMAIN saved_audiences
    /\ saved_audiences["a"] # {}
    /\ ~NameAccepted("a", saved_audiences)

\* ---------------------------------------------------------------------
\* The places of a duplicate group whose full normalized address (with the
\* city) is the normalized_address of at least one permit of the region
PlacesWithPermit(group) ==
    {i \in DOMAIN group :
        \E k \in DOMAIN join.permits_df :
            join.permits_df[k].normalized_address = FullKey(group[i])}

\* C22: for a duplicate group of more than one member, the property that
\* survives is the first member, in the order of the merged list, whose full
\* normalized address equals the normalized_address of a permit, and the
\* first member of the group when no member has such a permit.
C22_FirstMatchingVariant ==
    Resolved =>
        \A key \in MergedKeys :
            LET group == AddrGroup(join.merged, key)
                places == PlacesWithPermit(group)
                first == IF places = {} THEN 1
                         ELSE CHOOSE i \in places : \A o \in places : i <= o
            IN  Len(group) > 1 =>
                    {join.unique_properties[j] : j \in Survivors(key)}
                        = {group[first]}

\* Two variants of one address with the only permit at the second one: the
\* second variant is the survivor
C22_Witness ==
    /\ Resolved
    /\ AddrGroup(join.merged, NoCityKey(HouseRock)) = <<HouseRock, HouseSalem>>
    /\ PlacesWithPermit(<<HouseRock, HouseSalem>>) = {2}
    /\ HouseSalem \in Range(join.unique_properties)
    /\ HouseRock \notin Range(join.unique_properties)

\* ---------------------------------------------------------------------
\* main() is over: it returned, or an exception of process_data left it
MainOver == join.pc \in {"returned", "ValueError"}

\* C23: a failure for one region does not stop the match driver: main never
\* ends with an exception raised by process_data, and when it is over every
\* configured region has either been skipped for its missing input file or
\* been processed.
C23_RegionFailureContained ==
    MainOver =>
        /\ join.pc = "returned"
        /\ \A state \in Range(MainStates) :
               IF join.merged_files[state].exists
               THEN state \in Range(join.processed)
               ELSE state \in Range(join.skipped)

\* ---------------------------------------------------------------------
\* The evaluation of one permit of one property raises inside the loop of
\* the sale-to-permit stage: the permit has one row and a date, and the
\* property's id is held by several rows, so that sale_date is a Series and
\* (permit_date - sale_date).days raises AttributeError
PermitEvaluationFails(df, pdf, property_id, permit_id) ==
    LET prows == {j \in DOMAIN pdf : pdf[j].permit_id = permit_id}
        srows == {i \in DOMAIN df : df[i].id = property_id}
    IN  /\ Cardinality(prows) = 1
        /\ NotNa(pdf[CHOOSE j \in prows : TRUE].file_date)
        /\ Cardinality(srows) > 1

\* C24: an exception raised while a filter stage of filter_properties is
\* evaluated reaches the caller: a call in which the evaluation of a
\* permit of a property failed in the sale-to-permit stage does not return
\* a table, it raises.
C24_StageErrorsPropagate ==
    (/\ GapFiltered
     /\ \E property_id \in ValidProperties(properties_df, property_permit_map) :
            \E k \in DOMAIN property_permit_map[property_id] :
                PermitEvaluationFails(properties_df, permits_df, property_id,
                                      property_permit_map[property_id][k]))
        => result.raised # "none"

C26_IndexMapsConsistent ==
    initialized =>
        /\ \A p \in DOMAIN property_permit_map :
               \A k \in DOMAIN property_permit_map[p] :
                   /\ property_permit_map[p][k] \in DOMAIN permit_property_map
                   /\ permit_property_map[property_permit_map[p][k]] = p
        /\ \A q \in DOMAIN permit_property_map :
               /\ permit_property_map[q] \in DOMAIN property_permit_map
               /\ q \in Range(property_permit_map[permit_property_map[q]])
        /\ \A p \in DOMAIN property_permit_map :
               \A k, o \in DOMAIN property_permit_map[p] :
                   property_permit_map[p][k] = property_permit_map[p][o] => k = o

\* ---------------------------------------------------------------------
\* C27: once load_data has completed without raising, a build_audience
\* call on the builder returns a result and does not raise, also when the
\* match file of a region was missing or unreadable at load time, and the
\* index it rebuilds from the unchanged files is the index load_data stored.
C27_BuildAfterLoadReturns ==
    (initialized /\ call.op = "build_audience") =>
        /\ result.raised = "none"
        /\ RebuiltIndex(matches_files).property_permit_map = property_permit_map
        /\ RebuiltIndex(matches_files).permit_property_map = permit_property_map

\* ---------------------------------------------------------------------
\* C28: within one session the saved audiences are pairwise disjoint: no
\* property id belongs to two audiences of st.session_state.saved_audiences.
C28_AudiencesDisjoint ==
    \A n \in DOMAIN saved_audiences, o \in DOMAIN saved_audiences :
        n # o => saved_audiences[n] \cap saved_audiences[o] = {}

\* ---------------------------------------------------------------------
\* C29: within one session, once the saved audiences have been read, the
\* names of st.session_state.saved_audiences are the names of the audience
\* files present in the audiences directory, and the id set of each session
\* entry is the id set stored in its file.
C29_SessionMirrorsDirectory ==
    initialized =>
        /\ DOMAIN saved_audiences = {f[2] : f \in ListDir(audience_files)}
        /\ \A f \in ListDir(audience_files) :
               /\ audience_files[f].name = f[2]
               /\ f[2] \in DOMAIN saved_audiences
                      => saved_audiences[f[2]] = Range(audience_files[f].properties)

====
